---------------------------- MODULE Spec2Model ----------------------------
(***************************************************************************)
(* Marketing budget pipeline of Midterm/main.py (text prompt) and          *)
(* Midterm/budget_optimizer_gui.py (form): input validation, synthetic     *)
(* sample generation from the shared numpy generator, budget allocation    *)
(* with scipy.optimize.minimize, two-sample t-test, 12-month forecast.     *)
(*                                                                         *)
(* Numbers.  A Python float is a record [k, v]: k is "num" (finite, v the  *)
(* value in a fixed-point unit), "nan", "pinf" or "ninf".  Units:          *)
(*   money spent      cents                 (CentsPerDollar)               *)
(*   projected return hundredths of a cent  (scale * ppm / 100)            *)
(*   sample values    hundredths            (0.15 is 15)                   *)
(*   t statistic      thousandths                                          *)
(*   p value          ten-thousandths       (PScale)                       *)
(* Division of a fixed-point number rounds down to its unit.               *)
(*                                                                         *)
(* Library code (numpy, scipy) is not part of the repository; it is        *)
(* modelled by what its interface promises, see np_random_normal,          *)
(* Minimize, ttest_ind and quad.                                           *)
(***************************************************************************)
EXTENDS Integers, Sequences, FiniteSets, TLC

\* ------------------------------------------------------------- bounds
MaxLen == 2        \* longest typed input over Chars
TapeLen == 4       \* period of the model generator
MaxN == 2          \* largest sample count; stands for the default n=100
GridParts == 4     \* the solver searches the box in steps of 1/GridParts
MaxBudget == 4     \* largest budget (dollars) of a direct optimize_budget call

\* ---------------------------------------------------- fixed-point units
CentsPerDollar == 100
Ppm == 1000000
PScale == 10000

\* ------------------------------------------------------------- floats
Num(v) == [k |-> "num", v |-> v]
NaN == [k |-> "nan", v |-> 0]
PInf == [k |-> "pinf", v |-> 0]
NInf == [k |-> "ninf", v |-> 0]
NoVal == [k |-> "none", v |-> 0]

IsNum(f) == f.k = "num"

\* f <= 0 as Python evaluates it: every comparison with NaN is False.
FLeZero(f) ==
    \/ f.k = "ninf"
    \/ f.k = "num" /\ f.v <= 0

\* a < b for a finite or NaN a and a finite b.
FLess(a, b) == a.k = "num" /\ b.k = "num" /\ a.v < b.v

FNeg(f) ==
    CASE f.k = "num" -> Num(-f.v)
      [] f.k = "pinf" -> NInf
      [] f.k = "ninf" -> PInf
      [] OTHER -> NaN

FAdd(a, b) ==
    CASE a.k = "nan" \/ b.k = "nan" -> NaN
      [] a.k = "num" /\ b.k = "num" -> Num(a.v + b.v)
      [] a.k = "num" -> b
      [] b.k = "num" -> a
      [] a.k = b.k -> a
      [] OTHER -> NaN

FSub(a, b) == FAdd(a, FNeg(b))

\* f / d for a positive integer d.
FDivInt(f, d) == IF f.k = "num" THEN Num(f.v \div d) ELSE f

FSum2(x) == FAdd(x[1], x[2])

\* Largest r with r * r <= x, by bisection on lo..hi.
RECURSIVE ISqrtIn(_, _, _)
ISqrtIn(x, lo, hi) ==
    IF lo >= hi THEN lo
    ELSE LET mid == (lo + hi + 1) \div 2
         IN  IF mid * mid <= x THEN ISqrtIn(x, mid, hi)
             ELSE ISqrtIn(x, lo, mid - 1)

ISqrt(x) == ISqrtIn(x, 0, 46340)

\* np.exp: 1 - exp(-x) for x given in ppm, result in ppm, by the series
\* x - x^2/2 + x^3/6 (the next term is below 1 ppm for x < 0.07).
OneMinusExpNeg(xPpm) ==
    xPpm - ((xPpm * xPpm) \div (2 * Ppm))
         + ((((xPpm * xPpm) \div Ppm) * xPpm) \div (6 * Ppm))


\* -------------------------------------------------------------- state
VARIABLES
    tape,       \* the generator's output sequence: position -> standard draw
    rng,        \* state of the shared np.random generator (a tape position)
    inp,        \* the text the user typed at the prompt / into the entry
    exit,       \* how minimize ends on the problem built from inp
    out,        \* entry point -> what it reported for inp ("idle": not run)
    gen,        \* last two direct generate_campaign_data / ab_test calls
    opt,        \* last direct optimize_budget call
    fc          \* last direct forecast_revenue call

vars == <<tape, rng, inp, exit, out, gen, opt, fc>>

\* ------------------------------------------------- numpy.random (model)
\* The generator is a deterministic machine: seed() sets its state from the
\* seed alone, each draw outputs a function of the state and advances it.
\* The outputs themselves (tape) are left arbitrary.
Draws == {-1, 1}

np_random_seed(seed) == seed % TapeLen

RECURSIVE np_random_normal(_, _, _, _)
np_random_normal(loc, scale, size, g) ==
    IF size = 0 THEN << >>
    ELSE <<loc + scale * tape[g]>>
         \o np_random_normal(loc, scale, size - 1, (g + 1) % TapeLen)

Advance(g, size) == (g + size) % TapeLen

\* ---------------------------------------------- scipy.optimize (model)
\* minimize(fun, x0, bounds=, constraints=) searches the box given by the
\* bounds on a grid of GridParts steps per axis.  exit says how the run ends:
\*   converged  x minimises fun over the points of Box meeting the constraint
\*   stalled    the solver gives up at the initial guess
\*   iterate    the solver stops at an iterate that is not a solution; the
\*              corners of the box stand for these (i, j are 0 or GridParts)
\* Only a converged run reports success; a problem with a non-finite bound
\* or guess cannot converge and is returned at the guess.
Exits ==
    {[kind |-> "converged", i |-> 0, j |-> 0], [kind |-> "stalled", i |-> 0, j |-> 0]}
    \cup [kind : {"iterate"}, i : {0, GridParts}, j : {0, GridParts}]

GridPoint(b, i) == Num(b[1].v + ((b[2].v - b[1].v) * i) \div GridParts)

Finite(x0, bounds) ==
    /\ \A a \in 1..2 : IsNum(bounds[a][1]) /\ IsNum(bounds[a][2])
    /\ IsNum(x0[1]) /\ IsNum(x0[2])

\* The points minimize may evaluate: the grid of the box, and the guess.
Box(x0, bounds) ==
    {x0} \cup (IF Finite(x0, bounds)
               THEN {<<GridPoint(bounds[1], i), GridPoint(bounds[2], j)>> :
                        i \in 0..GridParts, j \in 0..GridParts}
               ELSE {})

\* fun and con are the objective and the constraint function, as maps on Box.
Minimize(fun, x0, bounds, con, e) ==
    LET finite == Finite(x0, bounds)
        Feasible == {x \in Box(x0, bounds) : con[x] = Num(0)}
        ok == finite /\ e.kind = "converged" /\ Feasible # {}
        x == IF ok
             THEN CHOOSE p \in Feasible : \A q \in Feasible : fun[p].v <= fun[q].v
             ELSE IF finite /\ e.kind = "iterate"
             THEN <<GridPoint(bounds[1], e.i), GridPoint(bounds[2], e.j)>>
             ELSE x0
    IN  [x |-> x, fun |-> fun[x], success |-> ok]

\* ------------------------------------------------- scipy.stats (model)
RECURSIVE SeqSum(_)
SeqSum(s) == IF s = << >> THEN 0 ELSE Head(s) + SeqSum(Tail(s))

RECURSIVE SeqSumSq(_)
SeqSumSq(s) == IF s = << >> THEN 0 ELSE Head(s) * Head(s) + SeqSumSq(Tail(s))

\* sum over j < terms of (1*3*..*(2j-1))/(2*4*..*2j) * c^j, scaled by PScale
RECURSIVE TailSeries(_, _, _, _)
TailSeries(c, j, term, terms) ==
    IF j >= terms THEN 0
    ELSE term + TailSeries(c, j + 1,
                           (((term * c) \div PScale) * (2 * j + 1)) \div (2 * j + 2),
                           terms)

\* ttest_ind(a, b): Student's two-sided test with pooled variance
\* (equal_var=True, the default).  With n = len(a), m = len(b), df = n+m-2,
\*   t^2 = D^2 df / W,  D = m sum(a) - n sum(b),
\*   W = (n + m) (m (n sum(a^2) - sum(a)^2) + n (m sum(b^2) - sum(b)^2)),
\* and for even df, with s^2 = t^2 / (df + t^2) and c = 1 - s^2,
\*   p = 1 - s (1 + c/2 + 3c^2/8 + ... ) with df/2 terms.
\* An empty sample, df = 0, or 0/0 gives (nan, nan); a zero variance with
\* different means gives an infinite t and p = 0.
ttest_ind(a, b) ==
    LET n == Len(a)
        m == Len(b)
        df == n + m - 2
        D == m * SeqSum(a) - n * SeqSum(b)
        W == (n + m) * (m * (n * SeqSumSq(a) - SeqSum(a) * SeqSum(a))
                        + n * (m * SeqSumSq(b) - SeqSum(b) * SeqSum(b)))
        N == D * D * df
        r == (N * PScale) \div (N + df * W)
        s == ISqrt(r * PScale)
        A == (s * TailSeries(PScale - r, 0, PScale, df \div 2)) \div PScale
        \* 1000 |t| = sqrt(10^6 N / W), scaled in two steps to stay in 32 bits
        tAbs == ISqrt(((N * 10000) \div W) * 100)
    IN  IF n = 0 \/ m = 0 \/ df <= 0 \/ (W = 0 /\ D = 0) THEN <<NaN, NaN>>
        ELSE IF W = 0 THEN <<IF D > 0 THEN PInf ELSE NInf, Num(0)>>
        ELSE <<Num(IF D < 0 THEN -tAbs ELSE tAbs),
               Num(IF A >= PScale THEN 0 ELSE PScale - A)>>

\* --------------------------------------------- scipy.integrate (model)
\* quad(f, a, b): a weighted sum of integrand values, one node per unit
\* panel of [a, b], the weights adding up to b - a.  Returns (value, error).
\* f is the integrand as a map on the nodes a+1 .. b.
RECURSIVE QuadSum(_, _, _)
QuadSum(f, a, b) ==
    IF a >= b THEN Num(0) ELSE FAdd(f[a + 1], QuadSum(f, a + 1, b))

quad(f, a, b) == <<QuadSum(f, a, b), Num(0)>>

\* ------------------------------------------------------ Midterm/main.py
DefaultSeed == 42
\* The default sample count (n=100 in the source) at the model's size.
DefaultN == MaxN

\* mutant: the draws continue from wherever the shared generator stands
generate_campaign_data_unseeded(n, seed, g) ==
    LET campaign_A == np_random_normal(15, 2, n, g)
        campaign_B == np_random_normal(10, 2, n, Advance(g, n))
    IN  [A |-> campaign_A, B |-> campaign_B, rng |-> Advance(g, 2 * n)]

generate_campaign_data(n, seed, g) ==
    LET g0 == np_random_seed(seed)
        campaign_A == np_random_normal(15, 2, n, g0)
        campaign_B == np_random_normal(10, 2, n, Advance(g0, n))
    IN  [A |-> campaign_A, B |-> campaign_B, rng |-> Advance(g0, 2 * n)]

\* 2000 * (1 - exp(-0.0003 * budget)): the rate is 300 ppm per dollar; dollars
\* times ppm are micro-dollars, and 100 of them a hundredth of a cent.
roi_curve_A(budget) ==
    CASE budget.k = "num" ->
            Num((2000 * OneMinusExpNeg((300 * budget.v) \div CentsPerDollar)) \div 100)
      [] budget.k = "pinf" -> Num((2000 * Ppm) \div 100)
      [] budget.k = "ninf" -> NInf
      [] OTHER -> NaN

roi_curve_B(budget) ==
    CASE budget.k = "num" ->
            Num((1500 * OneMinusExpNeg((400 * budget.v) \div CentsPerDollar)) \div 100)
      [] budget.k = "pinf" -> Num((1500 * Ppm) \div 100)
      [] budget.k = "ninf" -> NInf
      [] OTHER -> NaN

neg_total_roi(x) == FNeg(FAdd(roi_curve_A(x[1]), roi_curve_B(x[2])))

\* lines 38-45: the problem handed to minimize, and its result
solve_budget(total_budget, e) ==
    LET bounds == <<<<Num(0), total_budget>>, <<Num(0), total_budget>>>>
        initial_guess == <<FDivInt(total_budget, 2), FDivInt(total_budget, 2)>>
        fun == [x \in Box(initial_guess, bounds) |-> neg_total_roi(x)]
        con == [x \in Box(initial_guess, bounds) |-> FSub(total_budget, FSum2(x))]
    IN  Minimize(fun, initial_guess, bounds, con, e)

\* mutant: the objective value is returned with the solver's sign
optimize_budget_unnegated(total_budget, e) ==
    LET result == solve_budget(total_budget, e)
    IN  <<result.x, result.fun>>

optimize_budget(total_budget, e) ==
    LET result == solve_budget(total_budget, e)
    IN  <<result.x, FNeg(result.fun)>>

ab_test(data_A, data_B) ==
    LET r == ttest_ind(data_A, data_B)
    IN  <<r[1], r[2]>>

\* mutant: the yearly spend is used as the monthly one
forecast_revenue_undivided(budget_A) ==
    LET monthly_budget == budget_A
        integrand == [t \in 1..12 |-> roi_curve_A(monthly_budget)]
    IN  quad(integrand, 0, 12)[1]

forecast_revenue(budget_A) ==
    LET monthly_budget == FDivInt(budget_A, 12)
        integrand == [t \in 1..12 |-> roi_curve_A(monthly_budget)]
    IN  quad(integrand, 0, 12)[1]

\* ----------------------------------------------------- reading the input
Digits == {"0", "1"}
Chars == Digits \cup {"-"}
Words == {<<"n", "a", "n">>, <<"i", "n", "f">>, <<"-", "i", "n", "f">>,
          <<"a", "b", "c">>}

SeqsUpTo(S, len) == UNION {[1..l -> S] : l \in 0..len}

Inputs == SeqsUpTo(Chars, MaxLen) \cup Words

DigitVal(c) == IF c = "1" THEN 1 ELSE 0

RECURSIVE Horner(_, _)
Horner(s, acc) ==
    IF s = << >> THEN acc ELSE Horner(Tail(s), 10 * acc + DigitVal(Head(s)))

\* float(text): an optional sign, then digits, "nan" or "inf"; anything else
\* raises ValueError (ok = FALSE).  The value is in cents.
float(s) ==
    LET neg == s # << >> /\ Head(s) = "-"
        body == IF neg THEN Tail(s) ELSE s
        mag == Num(Horner(body, 0) * CentsPerDollar)
    IN  IF body = <<"n", "a", "n">> THEN [ok |-> TRUE, val |-> NaN]
        ELSE IF body = <<"i", "n", "f">>
        THEN [ok |-> TRUE, val |-> IF neg THEN NInf ELSE PInf]
        ELSE IF body # << >> /\ \A i \in 1..Len(body) : body[i] \in Digits
        THEN [ok |-> TRUE, val |-> IF neg THEN FNeg(mag) ELSE mag]
        ELSE [ok |-> FALSE, val |-> NaN]

\* ------------------------------------------------------- the reports
Idle ==
    [status |-> "idle", message |-> "", calls |-> << >>, budget |-> NoVal,
     alloc |-> <<NoVal, NoVal>>, max_roi |-> NoVal, t |-> NoVal, p |-> NoVal,
     verdict |-> "", fcArg |-> NoVal, forecast |-> NoVal]

Rejected(msg) == [Idle EXCEPT !.status = "error", !.message = msg]

\* mutant: the comparison is turned around
main_verdict_flipped(p_val) ==
    IF FLess(Num((5 * PScale) \div 100), p_val)
    THEN "significant, A likely better"
    ELSE "no significant difference"

\* main.py lines 95-98
main_verdict(p_val) ==
    IF FLess(p_val, Num((5 * PScale) \div 100))
    THEN "significant, A likely better"
    ELSE "no significant difference"

\* main(): the report and the generator state it leaves behind
main(text, g, e) ==
    LET parsed == float(text)
        user_input == parsed.val
        data == generate_campaign_data(DefaultN, DefaultSeed, g)
        o == optimize_budget(user_input, e)
        budget_A == o[1][1]
        budget_B == o[1][2]
        test == ab_test(data.A, data.B)
        forecast == forecast_revenue(budget_A)
    IN  IF ~parsed.ok
        THEN [rep |-> Rejected("Invalid input. Please enter a numeric value."),
              rng |-> g]
        ELSE IF FLeZero(user_input)
        THEN [rep |-> Rejected("Please enter a positive number."), rng |-> g]
        ELSE [rep |-> [status |-> "done", message |-> "",
                       calls |-> <<"generate_campaign_data", "optimize_budget",
                                   "ab_test", "forecast_revenue">>,
                       budget |-> user_input,
                       alloc |-> <<budget_A, budget_B>>, max_roi |-> o[2],
                       t |-> test[1], p |-> test[2],
                       verdict |-> main_verdict(test[2]),
                       fcArg |-> budget_A, forecast |-> forecast],
              rng |-> data.rng]

\* ---------------------------------------- Midterm/budget_optimizer_gui.py
\* The form's script carries its own copy of every stage.
gui_generate_campaign_data(n, seed, g) ==
    LET g0 == np_random_seed(seed)
        campaign_A == np_random_normal(15, 2, n, g0)
        campaign_B == np_random_normal(10, 2, n, Advance(g0, n))
    IN  [A |-> campaign_A, B |-> campaign_B, rng |-> Advance(g0, 2 * n)]

\* mutant: the copy drifts from main.py's curve (campaign B's rate)
gui_roi_curve_A_drifted(budget) ==
    CASE budget.k = "num" ->
            Num((2000 * OneMinusExpNeg((400 * budget.v) \div CentsPerDollar)) \div 100)
      [] budget.k = "pinf" -> Num((2000 * Ppm) \div 100)
      [] budget.k = "ninf" -> NInf
      [] OTHER -> NaN

gui_roi_curve_A(budget) ==
    CASE budget.k = "num" ->
            Num((2000 * OneMinusExpNeg((300 * budget.v) \div CentsPerDollar)) \div 100)
      [] budget.k = "pinf" -> Num((2000 * Ppm) \div 100)
      [] budget.k = "ninf" -> NInf
      [] OTHER -> NaN

gui_roi_curve_B(budget) ==
    CASE budget.k = "num" ->
            Num((1500 * OneMinusExpNeg((400 * budget.v) \div CentsPerDollar)) \div 100)
      [] budget.k = "pinf" -> Num((1500 * Ppm) \div 100)
      [] budget.k = "ninf" -> NInf
      [] OTHER -> NaN

gui_neg_total_roi(x) == FNeg(FAdd(gui_roi_curve_A(x[1]), gui_roi_curve_B(x[2])))

gui_solve_budget(total_budget, e) ==
    LET bounds == <<<<Num(0), total_budget>>, <<Num(0), total_budget>>>>
        guess == <<FDivInt(total_budget, 2), FDivInt(total_budget, 2)>>
        fun == [x \in Box(guess, bounds) |-> gui_neg_total_roi(x)]
        con == [x \in Box(guess, bounds) |-> FSub(total_budget, FSum2(x))]
    IN  Minimize(fun, guess, bounds, con, e)

gui_optimize_budget(total_budget, e) ==
    LET result == gui_solve_budget(total_budget, e)
    IN  <<result.x, FNeg(result.fun)>>

gui_ab_test(data_A, data_B) ==
    LET r == ttest_ind(data_A, data_B)
    IN  <<r[1], r[2]>>

gui_forecast_revenue(budget_A) ==
    LET monthly_budget == FDivInt(budget_A, 12)
        integrand == [t \in 1..12 |-> gui_roi_curve_A(monthly_budget)]
    IN  quad(integrand, 0, 12)[1]

\* budget_optimizer_gui.py line 69
gui_verdict(p_val) ==
    IF FLess(p_val, Num((5 * PScale) \div 100))
    THEN "significant, A likely better"
    ELSE "no significant difference"

\* run_optimizer(): a ValueError from float() and a budget <= 0 end in the
\* same except branch.
run_optimizer(text, g, e) ==
    LET parsed == float(text)
        budget == parsed.val
        data == gui_generate_campaign_data(DefaultN, DefaultSeed, g)
        o == gui_optimize_budget(budget, e)
        bA == o[1][1]
        bB == o[1][2]
        test == gui_ab_test(data.A, data.B)
        forecast == gui_forecast_revenue(bA)
    IN  IF ~parsed.ok \/ FLeZero(budget)
        THEN [rep |-> Rejected("Please enter a valid positive number."), rng |-> g]
        ELSE [rep |-> [status |-> "done", message |-> "",
                       calls |-> <<"generate_campaign_data", "optimize_budget",
                                   "ab_test", "forecast_revenue">>,
                       budget |-> budget,
                       alloc |-> <<bA, bB>>, max_roi |-> o[2],
                       t |-> test[1], p |-> test[2],
                       verdict |-> gui_verdict(test[2]),
                       fcArg |-> bA, forecast |-> forecast],
              rng |-> data.rng]

\* ------------------------------------------------------------- actions
Seeds == {DefaultSeed, DefaultSeed + 1}

Sources == {"main", "gui"}

NoGen ==
    [called |-> FALSE, moved |-> FALSE, seed |-> 0, n |-> 0,
     A |-> << >>, B |-> << >>,
     tested |-> FALSE, status |-> "", t |-> NoVal, p |-> NoVal]

NoOpt ==
    [called |-> FALSE, src |-> "main", total |-> NoVal,
     exit |-> [kind |-> "converged", i |-> 0, j |-> 0],
     x |-> <<NoVal, NoVal>>, ret |-> NoVal]

NoFc == [called |-> FALSE, src |-> "main", arg |-> NoVal, value |-> NoVal]

Init ==
    /\ tape \in [0..(TapeLen - 1) -> Draws]
    /\ rng \in 0..(TapeLen - 1)
    /\ inp = << >>
    /\ exit = [kind |-> "converged", i |-> 0, j |-> 0]
    /\ out = [main |-> Idle, gui |-> Idle]
    /\ gen = [last |-> NoGen, prev |-> NoGen]
    /\ opt = NoOpt
    /\ fc = NoFc

\* The user types a new budget text; nothing has been reported for it yet.
\* minimize is a function of its arguments: how it ends on this budget is
\* fixed with the text, whichever entry point then calls it.
UserTypes(text, e) ==
    /\ inp' = text
    /\ exit' = e
    /\ out' = [main |-> Idle, gui |-> Idle]
    /\ UNCHANGED <<tape, rng, gen, opt, fc>>

\* main.py is run on the typed text.
Main ==
    /\ LET r == main(inp, rng, exit)
       IN  /\ out' = [out EXCEPT !.main = r.rep]
           /\ rng' = r.rng
    /\ UNCHANGED <<tape, inp, exit, gen, opt, fc>>

\* The form's button is pressed on the typed text.
RunOptimizer ==
    /\ LET r == run_optimizer(inp, rng, exit)
       IN  /\ out' = [out EXCEPT !.gui = r.rep]
           /\ rng' = r.rng
    /\ UNCHANGED <<tape, inp, exit, gen, opt, fc>>

Next ==
    \/ \E text \in Inputs, e \in Exits : UserTypes(text, e)
    \/ Main
    \/ RunOptimizer

Spec == Init /\ [][Next]_vars

\* ---- direct use of the sample generator and the significance test,
\* from either script (src); moved says that the generator was not in the
\* state the seed sets when the call was made
GenerateCampaignData(n, seed, src) ==
    /\ LET d == IF src = "main" THEN generate_campaign_data(n, seed, rng)
                ELSE gui_generate_campaign_data(n, seed, rng)
       IN  /\ gen' = [last |-> [called |-> TRUE,
                                moved |-> rng # np_random_seed(seed),
                                seed |-> seed, n |-> n, A |-> d.A, B |-> d.B,
                                tested |-> FALSE, status |-> "",
                                t |-> NoVal, p |-> NoVal],
                      prev |-> gen.last]
           /\ rng' = d.rng
    /\ UNCHANGED <<tape, inp, exit, out, opt, fc>>

\* ab_test on the samples of the last call; it returns whatever ttest_ind
\* returns: there is no other way out of it.
AbTest(src) ==
    /\ gen.last.called
    /\ ~gen.last.tested
    /\ LET r == IF src = "main" THEN ab_test(gen.last.A, gen.last.B)
                ELSE gui_ab_test(gen.last.A, gen.last.B)
       IN  gen' = [gen EXCEPT !.last.tested = TRUE, !.last.status = "returned",
                              !.last.t = r[1], !.last.p = r[2]]
    /\ UNCHANGED <<tape, rng, inp, exit, out, opt, fc>>

\* Some other code of the process draws from the shared generator.
OtherDraw ==
    /\ rng' = Advance(rng, 1)
    /\ UNCHANGED <<tape, inp, exit, out, gen, opt, fc>>

NextGen ==
    \/ \E n \in 0..MaxN, seed \in Seeds, src \in Sources :
            GenerateCampaignData(n, seed, src)
    \/ \E src \in Sources : AbTest(src)
    \/ OtherDraw

SpecGen == Init /\ [][NextGen]_vars

\* ---- direct use of the allocator and the forecaster, from either script.
\* minimize is a function of its arguments: the same budget again ends the
\* same way.
OptimizeBudget(b, e, src) ==
    /\ LET total == Num(b * CentsPerDollar)
           o == IF src = "main" THEN optimize_budget(total, e)
                ELSE gui_optimize_budget(total, e)
       IN  /\ (opt.called /\ opt.total = total) => e = opt.exit
           /\ opt' = [called |-> TRUE, src |-> src, total |-> total, exit |-> e,
                      x |-> o[1], ret |-> o[2]]
    /\ UNCHANGED <<tape, rng, inp, exit, out, gen, fc>>

\* forecast_revenue on the spend the allocator returned for campaign A
ForecastRevenue(src) ==
    /\ opt.called
    /\ fc' = [called |-> TRUE, src |-> src, arg |-> opt.x[1],
              value |-> IF src = "main" THEN forecast_revenue(opt.x[1])
                        ELSE gui_forecast_revenue(opt.x[1])]
    /\ UNCHANGED <<tape, rng, inp, exit, out, gen, opt>>

NextOpt ==
    \/ \E b \in 1..MaxBudget, e \in Exits, src \in Sources : OptimizeBudget(b, e, src)
    \/ \E src \in Sources : ForecastRevenue(src)

\* The allocator and the forecaster never touch the generator.
InitOpt == Init /\ rng = 0 /\ tape = [i \in 0..(TapeLen - 1) |-> 1]

SpecOpt == InitOpt /\ [][NextOpt]_vars

\* =============================================================== claims
StrictlyPositive(f) == (f.k = "num" /\ f.v > 0) \/ f.k = "pinf"

Ran(e) == out[e].status # "idle"

\* The result minimize handed to entry point e for the typed budget.
SolverResult(e) ==
    IF e = "main" THEN solve_budget(out[e].budget, exit)
    ELSE gui_solve_budget(out[e].budget, exit)

\* C1: a budget text that is not numeric or is <= 0 is answered with an
\* error and no stage is called; and no stage is ever called with a budget
\* that is not a strictly positive number.
C1_InvalidBudgetRejected ==
    \A e \in Sources :
        Ran(e) =>
            /\ (~float(inp).ok \/ FLeZero(float(inp).val)) =>
                    (out[e].status = "error" /\ out[e].calls = << >>)
            /\ out[e].calls # << >> => StrictlyPositive(out[e].budget)

\* C2: when minimize does not report success, the request ends in an
\* optimization failure and reports no allocation, return or forecast.
C2_SolverFailureSurfaced ==
    \A e \in Sources :
        (Ran(e) /\ out[e].calls # << >> /\ ~SolverResult(e).success) =>
            /\ out[e].status = "optimization_failure"
            /\ out[e].alloc = <<NoVal, NoVal>>
            /\ out[e].max_roi = NoVal
            /\ out[e].forecast = NoVal

\* C3: for every budget > 0 the returned spends add up to the budget within
\* 1e-6 of it, and each lies in [0, budget].
C3_AllocationValid ==
    (opt.called /\ opt.total.k = "num" /\ opt.total.v > 0) =>
        /\ IsNum(opt.x[1]) /\ IsNum(opt.x[2])
        /\ LET d == opt.x[1].v + opt.x[2].v - opt.total.v
           IN  (IF d < 0 THEN -d ELSE d) * Ppm <= opt.total.v
        /\ 0 <= opt.x[1].v /\ opt.x[1].v <= opt.total.v
        /\ 0 <= opt.x[2].v /\ opt.x[2].v <= opt.total.v

\* C4: for every budget > 0 the combined return that optimize_budget reports
\* is the sum of the two curves at the spends the same call returns.
C4_ReturnMatchesCurves ==
    (opt.called /\ opt.total.k = "num" /\ opt.total.v > 0) =>
        opt.ret = IF opt.src = "main"
                  THEN FAdd(roi_curve_A(opt.x[1]), roi_curve_B(opt.x[2]))
                  ELSE FAdd(gui_roi_curve_A(opt.x[1]), gui_roi_curve_B(opt.x[2]))

\* a converged call on more than one dollar, with a positive return
C4_Witness ==
    /\ opt.called /\ opt.exit.kind = "converged"
    /\ opt.total.v > CentsPerDollar /\ opt.ret.v > 0
    /\ opt.x[1].v + opt.x[2].v = opt.total.v

\* C5: with a sample count of zero, generating and testing ends in an
\* explicit EmptySample failure, never in a returned NaN.
C5_EmptySampleFails ==
    (gen.last.called /\ gen.last.n = 0 /\ gen.last.tested) =>
        /\ gen.last.status = "EmptySample"
        /\ gen.last.p.k # "nan" /\ gen.last.t.k # "nan"

\* C6: every call draws from the state its seed sets, whatever state the
\* shared generator was in: two calls with the same seed and count return
\* the same samples, and ab_test the same (t, p) on them.
C6_SameSeedSameSamples ==
    /\ gen.last.called =>
            /\ gen.last.A = np_random_normal(15, 2, gen.last.n,
                                             np_random_seed(gen.last.seed))
            /\ gen.last.B = np_random_normal(10, 2, gen.last.n,
                                Advance(np_random_seed(gen.last.seed), gen.last.n))
    /\ (gen.last.called /\ gen.prev.called
            /\ gen.last.seed = gen.prev.seed /\ gen.last.n = gen.prev.n) =>
            /\ gen.last.A = gen.prev.A
            /\ gen.last.B = gen.prev.B
            /\ (gen.last.tested /\ gen.prev.tested) =>
                    (gen.last.t = gen.prev.t /\ gen.last.p = gen.prev.p)

\* two tested calls with the same seed and the full count, both made with
\* the generator away from the state the seed sets
C6_Witness ==
    /\ gen.last.called /\ gen.prev.called
    /\ gen.last.tested /\ gen.prev.tested
    /\ gen.last.seed = gen.prev.seed
    /\ gen.last.n = MaxN /\ gen.prev.n = MaxN
    /\ gen.last.moved /\ gen.prev.moved
    /\ gen.last.p.k = "num"

\* C7: for every spend >= 0 the forecast is 12 times the campaign A curve
\* at a twelfth of the spend.
C7_ForecastExact ==
    (fc.called /\ fc.arg.k = "num" /\ fc.arg.v >= 0) =>
        /\ IsNum(fc.value)
        /\ fc.value.v = 12 * (IF fc.src = "main"
                              THEN roi_curve_A(Num(fc.arg.v \div 12)).v
                              ELSE gui_roi_curve_A(Num(fc.arg.v \div 12)).v)

C7_Witness == fc.called /\ fc.arg.k = "num" /\ fc.arg.v >= 12 /\ fc.value.v > 0

\* C8: of two budgets 0 < b1 <= b2, the larger never gets the smaller
\* combined return (stated on consecutive calls).
C8_MonotoneReturn ==
    [][(opt.called /\ opt'.called /\ IsNum(opt.ret) /\ IsNum(opt'.ret)
            /\ opt.total.v <= opt'.total.v) => opt.ret.v <= opt'.ret.v]_vars

\* C9: a completed request shows "significant, A likely better" exactly
\* when the p-value of ab_test is below 0.05, and "no significant
\* difference" otherwise.
C9_VerdictFromPValue ==
    \A e \in Sources :
        out[e].status = "done" =>
            LET below == out[e].p.k = "num" /\ out[e].p.v * 100 < 5 * PScale
            IN  /\ below => out[e].verdict = "significant, A likely better"
                /\ ~below => out[e].verdict = "no significant difference"

\* both entry points completed and show "no significant difference"
C9_Witness ==
    /\ \A e \in Sources : out[e].status = "done"
    /\ out["main"].p.k = "num" /\ out["main"].p.v * 100 >= 5 * PScale
    /\ out["main"].verdict = "no significant difference"

\* C10: on the same text the two entry points both reject or both accept,
\* and when they accept they call the same stages in the same order, the
\* forecast on the allocator's spend for A, with the same results.
C10_EntryPointsAgree ==
    (Ran("main") /\ Ran("gui")) =>
        /\ out["main"].status = out["gui"].status
        /\ out["main"].calls = out["gui"].calls
        /\ out["main"].budget = out["gui"].budget
        /\ out["main"].alloc = out["gui"].alloc
        /\ out["main"].max_roi = out["gui"].max_roi
        /\ out["main"].p = out["gui"].p
        /\ out["main"].verdict = out["gui"].verdict
        /\ out["main"].forecast = out["gui"].forecast
        /\ \A e \in Sources : out[e].fcArg = out[e].alloc[1]

\* both completed a request whose allocation gives the two campaigns
\* different spends
C10_Witness ==
    /\ \A e \in Sources : out[e].status = "done"
    /\ IsNum(out["gui"].alloc[1]) /\ IsNum(out["gui"].alloc[2])
    /\ out["gui"].alloc[1] # out["gui"].alloc[2]
    /\ exit.kind = "converged"
=============================================================================
